---- MODULE Spec2Model ----
(***************************************************************************)
(* Dreammaker: the dream-to-image pipeline of backend.py (the FastAPI      *)
(* handler /dream-to-image and the four stage functions) and of app.py     *)
(* (the Streamlit flow and its synchronous wrappers).                      *)
(*                                                                         *)
(* Text is a sequence of one-character strings, so that strip() and        *)
(* lower() are computed.  An optional value (Python's None or a value) is  *)
(* a record [some, v].  One behaviour is a sequence of pipeline runs; the  *)
(* history variables log, resolves and requests describe the current run.  *)
(***************************************************************************)
EXTENDS Naturals, Sequences, FiniteSets, TLC

VARIABLES
    use_streamlit_secrets,  \* backend.py:12-16, fixed at import
    secrets,                \* st.secrets: name -> optional string
    environ,                \* os.environ: name -> optional string
    flow,                   \* "none" | "api" (dream_to_image) | "ui" (app.py)
    world,                  \* what each upstream service answers in this run
    pc,                     \* position of the run
    text,                   \* the orchestrator's transcription (optional)
    emotion,                \* the orchestrator's emotion (optional)
    prompt,                 \* the orchestrator's prompt (optional)
    image,                  \* the orchestrator's image data URI (optional)
    result,                 \* what the run handed to its caller
    err,                    \* the exception the run surfaced
    log,                    \* stage events of the run: invoke, return, raise
    resolves,               \* get_secret calls of the run, with their outcome
    requests,               \* service -> requests sent in the run
    files,                  \* temporary file -> "none" | "exists" | "deleted"
    handles                 \* open file handles

vars == <<use_streamlit_secrets, secrets, environ, flow, world, pc, text,
          emotion, prompt, image, result, err, log, resolves, requests,
          files, handles>>

-----------------------------------------------------------------------------
(* Values *)

Names == {"OPENAI_API_KEY", "GROQ_API_KEY", "CLIPDROP_API_KEY"}

Stages == <<"Transcriber", "EmotionClassifier", "PromptGenerator", "ImageSynthesizer">>

Services == {"stt", "chat_emotion", "chat_prompt", "image"}

None == [some |-> FALSE, v |-> <<>>]

Some(s) == [some |-> TRUE, v |-> s]

\* a configuration entry: unset, or set to a string
Unset == [some |-> FALSE, v |-> ""]

SetTo(s) == [some |-> TRUE, v |-> s]

NoErr == [kind |-> "none", status |-> 0, detail |-> "", name |-> ""]

\* raise RuntimeError(f"Clé API '{name}' manquante.")
RuntimeError(name) == [kind |-> "RuntimeError", status |-> 0, detail |-> "", name |-> name]

\* raise HTTPException(status_code=..., detail=...)
HTTPException(status, detail) == [kind |-> "HTTPException", status |-> status, detail |-> detail, name |-> ""]

\* str + Payload: can only concatenate str to str
TypeError == [kind |-> "TypeError", status |-> 0, detail |-> "", name |-> ""]

\* d["text"] on a dict without that key
KeyError == [kind |-> "KeyError", status |-> 0, detail |-> "", name |-> "text"]

\* the error the chat client raises by itself for a non-200 answer
APIStatusError(status, body) == [kind |-> "APIStatusError", status |-> status, detail |-> body, name |-> ""]

NoResult == [returned |-> FALSE, transcription |-> None, emotion |-> None, prompt |-> None, image |-> None]

-----------------------------------------------------------------------------
(* Pure functions *)

Whitespace == {" ", "\n", "\t"}

RECURSIVE lstrip(_)
lstrip(s) == IF s # <<>> /\ Head(s) \in Whitespace THEN lstrip(Tail(s)) ELSE s

RECURSIVE rstrip(_)
rstrip(s) == IF s # <<>> /\ s[Len(s)] \in Whitespace THEN rstrip(SubSeq(s, 1, Len(s) - 1)) ELSE s

\* str.strip()
strip(s) == rstrip(lstrip(s))

\* str.lower(), one character
lower_char(c) ==
    CASE c = "C" -> "c"
      [] c = "N" -> "n"
      [] c = "A" -> "a"
      [] c = "F" -> "f"
      [] OTHER -> c

\* str.lower()
lower(s) == [i \in 1..Len(s) |-> lower_char(s[i])]

\* dict.get(key, default)
dict_get(d, key, default) == IF key \in DOMAIN d THEN d[key] ELSE default

B64Alphabet ==
    << "A","B","C","D","E","F","G","H","I","J","K","L","M","N","O","P",
       "Q","R","S","T","U","V","W","X","Y","Z","a","b","c","d","e","f",
       "g","h","i","j","k","l","m","n","o","p","q","r","s","t","u","v",
       "w","x","y","z","0","1","2","3","4","5","6","7","8","9","+","/" >>

B64Char(n) == B64Alphabet[n + 1]

\* base64.b64encode(bytes).decode("utf-8")
RECURSIVE b64encode(_)
b64encode(b) ==
    IF b = <<>> THEN <<>>
    ELSE IF Len(b) = 1 THEN
        << B64Char(b[1] \div 4), B64Char((b[1] % 4) * 16), "=", "=" >>
    ELSE IF Len(b) = 2 THEN
        << B64Char(b[1] \div 4),
           B64Char((b[1] % 4) * 16 + b[2] \div 16),
           B64Char((b[2] % 16) * 4), "=" >>
    ELSE
        << B64Char(b[1] \div 4),
           B64Char((b[1] % 4) * 16 + b[2] \div 16),
           B64Char((b[2] % 16) * 4 + b[3] \div 64),
           B64Char(b[3] % 64) >> \o b64encode(SubSeq(b, 4, Len(b)))

\* f"data:image/png;base64,{base64_image}"
data_uri(b) == <<"data:image/png;base64,">> \o b64encode(b)

-----------------------------------------------------------------------------
(* Inputs *)

DreamText == <<"F", "e", "u">>

\* the longest run of whitespace put before and after a completion
MaxPad == 1

\* k characters of whitespace
Pad(k) == [i \in 1..k |-> IF i % 2 = 1 THEN " " ELSE "\n"]

Padded(s) == {Pad(k) \o s \o Pad(k) : k \in 0..MaxPad}

\* what an entry of st.secrets or of os.environ may hold
SecretValues == {Unset, SetTo("sk-secrets")}

EnvironValues == {Unset, SetTo(""), SetTo("sk-environ")}

\* answers of the speech-to-text endpoint
SttResponses ==
    { [status |-> 200, body |-> "json", json |-> [text |-> DreamText]],
      [status |-> 200, body |-> "json", json |-> [text |-> <<>>]],
      [status |-> 200, body |-> "json", json |-> [language |-> <<"f", "r">>]],
      [status |-> 500, body |-> "stt unavailable", json |-> [error |-> <<>>]] }

\* answers of the chat-completion endpoint to the emotion request
EmotionResponses ==
    { [status |-> 200, body |-> "json", content |-> c] :
          c \in Padded(<<"N", "e", "u", "t", "r", "e">>) \cup {<<>>} }
    \cup { [status |-> 429, body |-> "rate limited", content |-> <<>>] }

\* answers of the chat-completion endpoint to the prompt request
PromptResponses ==
    { [status |-> 200, body |-> "json", content |-> c] :
          c \in Padded(<<"A", "r", "t">>) \cup Padded(<<>>) }
    \cup { [status |-> 500, body |-> "chat unavailable", content |-> <<>>] }

\* answers of the text-to-image endpoint
ImageResponses ==
    { [status |-> 200, body |-> "png", content |-> <<137, 80>>],
      [status |-> 402, body |-> "no credits", content |-> <<>>] }

Worlds ==
    [stt : SttResponses, chat_emotion : EmotionResponses,
     chat_prompt : PromptResponses, image : ImageResponses]

NoWorld == CHOOSE w \in Worlds : TRUE

-----------------------------------------------------------------------------
(* Secret resolver *)

Ok(v) == [ok |-> TRUE, v |-> v, err |-> NoErr]

Raised(e) == [ok |-> FALSE, v |-> "", err |-> e]

\* get_secret with the two sources looked up in the other order
get_secret_environ_first(name) ==
    IF environ[name].some /\ environ[name].v # ""
    THEN Ok(environ[name].v)
    ELSE IF use_streamlit_secrets /\ secrets[name].some
         THEN Ok(secrets[name].v)
         ELSE Raised(RuntimeError(name))

\* backend.py:33-39
get_secret(name) ==
    IF use_streamlit_secrets /\ secrets[name].some
    THEN Ok(secrets[name].v)
    ELSE IF ~environ[name].some \/ environ[name].v = ""
         THEN Raised(RuntimeError(name))
         ELSE Ok(environ[name].v)

-----------------------------------------------------------------------------
(* Stage functions: what each returns or raises for an upstream answer *)

\* KeyFor with the emotion stage resolving the image key
KeyFor_image_key_in_emotion(stage) ==
    CASE stage = "Transcriber" -> "OPENAI_API_KEY"
      [] stage = "EmotionClassifier" -> "CLIPDROP_API_KEY"
      [] stage = "PromptGenerator" -> "GROQ_API_KEY"
      [] stage = "ImageSynthesizer" -> "CLIPDROP_API_KEY"

\* backend.py:43, 81, 102, 144: the credential each stage resolves first
KeyFor(stage) ==
    CASE stage = "Transcriber" -> "OPENAI_API_KEY"
      [] stage = "EmotionClassifier" -> "GROQ_API_KEY"
      [] stage = "PromptGenerator" -> "GROQ_API_KEY"
      [] stage = "ImageSynthesizer" -> "CLIPDROP_API_KEY"

ServiceOf(stage) ==
    CASE stage = "Transcriber" -> "stt"
      [] stage = "EmotionClassifier" -> "chat_emotion"
      [] stage = "PromptGenerator" -> "chat_prompt"
      [] stage = "ImageSynthesizer" -> "image"

Returned(v) == [ok |-> TRUE, v |-> v, err |-> NoErr]

Failed(e) == [ok |-> FALSE, v |-> <<>>, err |-> e]

\* transcribe_audio_result reading response.json()["text"]
transcribe_audio_result_subscript(response) ==
    IF response.status # 200
    THEN Failed(HTTPException(response.status, response.body))
    ELSE IF "text" \in DOMAIN response.json
         THEN Returned(response.json["text"])
         ELSE Failed(KeyError)

\* backend.py:68-71
transcribe_audio_result(response) ==
    IF response.status # 200
    THEN Failed(HTTPException(response.status, response.body))
    ELSE Returned(dict_get(response.json, "text", <<>>))

\* the chat client's create(): a completion, or the client's own error
chat_completions_create(response) ==
    IF response.status # 200
    THEN Failed(APIStatusError(response.status, response.body))
    ELSE Returned(response.content)

\* backend.py:89-98
detect_emotion_result(response) ==
    LET completion == chat_completions_create(response)
    IN  IF completion.ok THEN Returned(lower(strip(completion.v))) ELSE completion

\* backend.py:110-119
generate_image_prompt_result(response) ==
    LET completion == chat_completions_create(response)
    IN  IF completion.ok THEN Returned(strip(completion.v)) ELSE completion

\* backend.py:150-154
generate_image_result(response) ==
    IF response.status # 200
    THEN Failed(HTTPException(response.status, response.body))
    ELSE Returned(data_uri(response.content))

\* the argument a stage function is called with: the bare string in
\* dream_to_image, Payload(text) in the wrappers of app.py
Arg(flw, t) == [wrapped |-> flw = "ui", text |-> t]

\* "..." + text: a str concatenates, a Payload does not
PromptTemplateFails(arg) == arg.wrapped

-----------------------------------------------------------------------------
(* Orchestration *)

\* NextAfter catching a stage's failure and going on with the next stage
NextAfter_catch_and_continue(flw, stage, out) ==
    CASE stage = "Transcriber" -> "emotion"
      [] stage = "EmotionClassifier" -> "prompt"
      [] stage = "PromptGenerator" -> "image"
      [] stage = "ImageSynthesizer" -> "finish"

\* NextAfter with the prompt generated before the emotion is classified
NextAfter_prompt_first(flw, stage, out) ==
    IF ~out.ok THEN "abort"
    ELSE CASE stage = "Transcriber" -> "prompt"
           [] stage = "PromptGenerator" -> "emotion"
           [] stage = "EmotionClassifier" -> "image"
           [] stage = "ImageSynthesizer" -> "finish"

\* where the run goes once `stage` has ended with `out`: dream_to_image
\* (backend.py:177-191) has no condition and no handler; the UI flow
\* (app.py:78-144) tests the transcription (89) and the prompt (112)
NextAfter(flw, stage, out) ==
    IF ~out.ok THEN "abort"
    ELSE IF flw = "api" THEN
        CASE stage = "Transcriber" -> "emotion"
          [] stage = "EmotionClassifier" -> "prompt"
          [] stage = "PromptGenerator" -> "image"
          [] stage = "ImageSynthesizer" -> "finish"
    ELSE
        CASE stage = "Transcriber" -> IF out.v # <<>> THEN "emotion" ELSE "finish"
          [] stage = "EmotionClassifier" -> "prompt"
          [] stage = "PromptGenerator" -> IF out.v # <<>> THEN "image" ELSE "finish"
          [] stage = "ImageSynthesizer" -> "finish"

Invoke(stage, arg) ==
    [ev |-> "invoke", stage |-> stage, text |-> arg.text, wrapped |-> arg.wrapped, err |-> NoErr]

Return(stage, v) ==
    [ev |-> "return", stage |-> stage, text |-> v, wrapped |-> FALSE, err |-> NoErr]

Raise(stage, e) ==
    [ev |-> "raise", stage |-> stage, text |-> <<>>, wrapped |-> FALSE, err |-> e]

Outcome(stage, out) == IF out.ok THEN Return(stage, out.v) ELSE Raise(stage, out.err)

Resolved(name) == [name |-> name, out |-> get_secret(name)]

\* the end of a step of the orchestrator: the locals, and where it goes
Goto(target, e, t, em, p, im) ==
    /\ text' = t
    /\ emotion' = em
    /\ prompt' = p
    /\ image' = im
    /\ IF target = "abort"
       THEN /\ err' = e
            /\ result' = NoResult
            /\ pc' = IF flow = "ui" THEN "cleanup" ELSE "done"
       ELSE IF target = "finish"
       THEN /\ err' = NoErr
            /\ result' = [returned |-> TRUE, transcription |-> t, emotion |-> em,
                          prompt |-> p, image |-> im]
            /\ pc' = IF flow = "ui" THEN "cleanup" ELSE "done"
       ELSE /\ pc' = target
            /\ UNCHANGED <<err, result>>

-----------------------------------------------------------------------------
(* Initial state *)

NoRequests == [s \in Services |-> 0]

NoFiles == [f \in {"audio_path", "tmp_path"} |-> "none"]

Init ==
    /\ use_streamlit_secrets \in BOOLEAN
    /\ secrets \in [Names -> SecretValues]
    /\ use_streamlit_secrets = FALSE => secrets = [n \in Names |-> Unset]
    /\ environ \in [Names -> EnvironValues]
    /\ flow = "none"
    /\ world = NoWorld
    /\ pc = "idle"
    /\ text = None
    /\ emotion = None
    /\ prompt = None
    /\ image = None
    /\ result = NoResult
    /\ err = NoErr
    /\ log = <<>>
    /\ resolves = <<>>
    /\ requests = NoRequests
    /\ files = NoFiles
    /\ handles = {}

-----------------------------------------------------------------------------
(* Configuration changes between runs *)

\* .streamlit/secrets.toml is edited
SecretsChanged ==
    /\ pc = "idle"
    /\ use_streamlit_secrets
    /\ \E n \in Names, x \in SecretValues :
          /\ secrets[n] # x
          /\ secrets' = [secrets EXCEPT ![n] = x]
    /\ UNCHANGED <<use_streamlit_secrets, environ, flow, world, pc, text, emotion,
                   prompt, image, result, err, log, resolves, requests, files, handles>>

\* the process is restarted with another environment (.env, load_dotenv)
EnvironChanged ==
    /\ pc = "idle"
    /\ \E n \in Names, x \in EnvironValues :
          /\ environ[n] # x
          /\ environ' = [environ EXCEPT ![n] = x]
    /\ UNCHANGED <<use_streamlit_secrets, secrets, flow, world, pc, text, emotion,
                   prompt, image, result, err, log, resolves, requests, files, handles>>

-----------------------------------------------------------------------------
(* A run *)

\* POST /dream-to-image arrives (backend.py:177-178)
BeginApi ==
    /\ pc = "idle"
    /\ \E w \in Worlds : world' = w
    /\ flow' = "api"
    /\ pc' = "transcribe"
    /\ UNCHANGED <<use_streamlit_secrets, secrets, environ, text, emotion, prompt, image,
                   result, err, log, resolves, requests, files, handles>>

\* a file is uploaded in the UI (app.py:72-76): its bytes go to a temporary file
BeginUi ==
    /\ pc = "idle"
    /\ use_streamlit_secrets
    /\ \E w \in Worlds : world' = w
    /\ flow' = "ui"
    /\ pc' = "transcribe"
    /\ files' = [files EXCEPT !["audio_path"] = "exists"]
    /\ UNCHANGED <<use_streamlit_secrets, secrets, environ, text, emotion, prompt, image,
                   result, err, log, resolves, requests, handles>>

\* transcribe_audio_func up to its await (backend.py:42-66), called from
\* dream_to_image (179) or through transcribe_audio_sync (app.py:45-52, 81)
TranscribeBegin ==
    /\ pc = "transcribe"
    /\ LET stage == "Transcriber"
           arg == [wrapped |-> FALSE, text |-> <<>>]
           key == get_secret(KeyFor(stage))
       IN  /\ resolves' = Append(resolves, Resolved(KeyFor(stage)))
           /\ IF key.ok
              THEN /\ log' = Append(log, Invoke(stage, arg))
                   /\ files' = [files EXCEPT !["tmp_path"] = "exists"]
                   /\ handles' = IF flow = "ui" THEN handles \cup {"dummy_file"} ELSE handles
                   /\ requests' = [requests EXCEPT ![ServiceOf(stage)] = @ + 1]
                   /\ pc' = "stt_wait"
                   /\ UNCHANGED <<text, emotion, prompt, image, result, err>>
              ELSE /\ log' = log \o <<Invoke(stage, arg), Raise(stage, key.err)>>
                   /\ UNCHANGED <<files, handles, requests>>
                   /\ Goto(NextAfter(flow, stage, Failed(key.err)), key.err,
                           text, emotion, prompt, image)
    /\ UNCHANGED <<use_streamlit_secrets, secrets, environ, flow, world>>

\* the speech-to-text answer arrives (backend.py:68-77); then the caller's
\* next lines (backend.py:180; app.py:50-51, 82-89)
TranscribeEnd ==
    /\ pc = "stt_wait"
    /\ LET stage == "Transcriber"
           out == transcribe_audio_result(world.stt)
       IN  /\ log' = Append(log, Outcome(stage, out))
           \* finally: os.remove(tmp_path); its failure is swallowed (74-77)
           /\ \E removed \in BOOLEAN :
                 files' = [files EXCEPT !["tmp_path"] = IF removed THEN "deleted" ELSE "exists"]
           /\ handles' = handles \ {"dummy_file"}
           /\ Goto(NextAfter(flow, stage, out), out.err,
                   IF out.ok THEN Some(out.v) ELSE text, emotion, prompt, image)
    /\ UNCHANGED <<use_streamlit_secrets, secrets, environ, flow, world, resolves, requests>>

\* a chat stage up to its await (backend.py:80-97, 101-118)
ChatBegin(stage, at, waiting) ==
    /\ pc = at
    /\ LET arg == Arg(flow, text.v)
           key == get_secret(KeyFor(stage))
           e == IF ~key.ok THEN key.err ELSE TypeError
       IN  /\ resolves' = Append(resolves, Resolved(KeyFor(stage)))
           /\ IF key.ok /\ ~PromptTemplateFails(arg)
              THEN /\ log' = Append(log, Invoke(stage, arg))
                   /\ requests' = [requests EXCEPT ![ServiceOf(stage)] = @ + 1]
                   /\ pc' = waiting
                   /\ UNCHANGED <<text, emotion, prompt, image, result, err>>
              ELSE /\ log' = log \o <<Invoke(stage, arg), Raise(stage, e)>>
                   /\ UNCHANGED requests
                   /\ Goto(NextAfter(flow, stage, Failed(e)), e, text, emotion, prompt, image)
    /\ UNCHANGED <<use_streamlit_secrets, secrets, environ, flow, world, files, handles>>

\* detect_emotion_func, from dream_to_image (182) or detect_emotion_sync (app.py:54-57, 92)
EmotionBegin == ChatBegin("EmotionClassifier", "emotion", "emotion_wait")

\* the chat answer to the emotion request arrives (backend.py:98; 182; app.py:93)
EmotionEnd ==
    /\ pc = "emotion_wait"
    /\ LET stage == "EmotionClassifier"
           out == detect_emotion_result(world.chat_emotion)
           shown == IF flow = "ui" THEN lower(out.v) ELSE out.v
       IN  /\ log' = Append(log, Outcome(stage, out))
           /\ Goto(NextAfter(flow, stage, out), out.err, text,
                   IF out.ok THEN Some(shown) ELSE emotion, prompt, image)
    /\ UNCHANGED <<use_streamlit_secrets, secrets, environ, flow, world, resolves,
                   requests, files, handles>>

\* generate_image_prompt_func, from dream_to_image (183) or
\* generate_image_prompt_sync (app.py:59-62, 103)
PromptBegin == ChatBegin("PromptGenerator", "prompt", "prompt_wait")

\* the chat answer to the prompt request arrives (backend.py:119; 183; app.py:104-112)
PromptEnd ==
    /\ pc = "prompt_wait"
    /\ LET stage == "PromptGenerator"
           out == generate_image_prompt_result(world.chat_prompt)
       IN  /\ log' = Append(log, Outcome(stage, out))
           /\ Goto(NextAfter(flow, stage, out), out.err, text, emotion,
                   IF out.ok THEN Some(out.v) ELSE prompt, image)
    /\ UNCHANGED <<use_streamlit_secrets, secrets, environ, flow, world, resolves,
                   requests, files, handles>>

\* generate_image_func up to its await (backend.py:143-148), from
\* dream_to_image (184).  generate_image_sync (app.py:64-65, 114-120) only
\* creates the coroutine: its body never runs and the response is no dict.
ImageBegin ==
    /\ pc = "image"
    /\ LET stage == "ImageSynthesizer"
           arg == Arg(flow, prompt.v)
           key == get_secret(KeyFor(stage))
       IN  IF flow = "ui"
           THEN /\ UNCHANGED <<log, resolves, requests>>
                /\ Goto("finish", NoErr, text, emotion, prompt, None)
           ELSE /\ resolves' = Append(resolves, Resolved(KeyFor(stage)))
                /\ IF key.ok
                   THEN /\ log' = Append(log, Invoke(stage, arg))
                        /\ requests' = [requests EXCEPT ![ServiceOf(stage)] = @ + 1]
                        /\ pc' = "image_wait"
                        /\ UNCHANGED <<text, emotion, prompt, image, result, err>>
                   ELSE /\ log' = log \o <<Invoke(stage, arg), Raise(stage, key.err)>>
                        /\ UNCHANGED requests
                        /\ Goto(NextAfter(flow, stage, Failed(key.err)), key.err,
                                text, emotion, prompt, image)
    /\ UNCHANGED <<use_streamlit_secrets, secrets, environ, flow, world, files, handles>>

\* the text-to-image answer arrives (backend.py:150-154), then 186-191
ImageEnd ==
    /\ pc = "image_wait"
    /\ LET stage == "ImageSynthesizer"
           out == generate_image_result(world.image)
       IN  /\ log' = Append(log, Outcome(stage, out))
           /\ Goto(NextAfter(flow, stage, out), out.err, text, emotion, prompt,
                   IF out.ok THEN Some(out.v) ELSE image)
    /\ UNCHANGED <<use_streamlit_secrets, secrets, environ, flow, world, resolves,
                   requests, files, handles>>

\* the finally block of the UI flow (app.py:146-153): os.remove(audio_path);
\* its failure is reported by st.warning and the file stays
Cleanup ==
    /\ pc = "cleanup"
    /\ \E removed \in BOOLEAN :
          files' = [files EXCEPT !["audio_path"] =
                       IF @ = "exists" /\ removed THEN "deleted" ELSE @]
    /\ pc' = "done"
    /\ UNCHANGED <<use_streamlit_secrets, secrets, environ, flow, world, text, emotion,
                   prompt, image, result, err, log, resolves, requests, handles>>

\* the run is over: its locals and its history are gone, the next request
\* or upload may come
Reset ==
    /\ pc = "done"
    /\ pc' = "idle"
    /\ flow' = "none"
    /\ world' = NoWorld
    /\ text' = None /\ emotion' = None /\ prompt' = None /\ image' = None
    /\ result' = NoResult /\ err' = NoErr
    /\ log' = <<>> /\ resolves' = <<>> /\ requests' = NoRequests
    /\ files' = NoFiles /\ handles' = {}
    /\ UNCHANGED <<use_streamlit_secrets, secrets, environ>>

Next ==
    \/ SecretsChanged
    \/ EnvironChanged
    \/ BeginApi
    \/ BeginUi
    \/ TranscribeBegin
    \/ TranscribeEnd
    \/ EmotionBegin
    \/ EmotionEnd
    \/ PromptBegin
    \/ PromptEnd
    \/ ImageBegin
    \/ ImageEnd
    \/ Cleanup
    \/ Reset

Spec == Init /\ [][Next]_vars

-----------------------------------------------------------------------------
(* Reading the history of a run *)

IsInvoke(e) == e.ev = "invoke"

IsOutcome(e) == e.ev \in {"return", "raise"}

InvokedStages == LET inv == SelectSeq(log, IsInvoke) IN [k \in 1..Len(inv) |-> inv[k].stage]

WasInvoked(stage) == \E i \in DOMAIN log : log[i].ev = "invoke" /\ log[i].stage = stage

ReturnedWith(stage, v) ==
    \E i \in DOMAIN log : log[i].ev = "return" /\ log[i].stage = stage /\ log[i].text = v

Populated(o) == o.some /\ o.v # <<>>

RunOver == pc = "done"

-----------------------------------------------------------------------------
(* C1, C2: short circuits *)

\* C1: when the Transcriber returns the empty string, no later stage is
\* invoked in that run and the run ends with a result holding only the
\* (empty) transcript.
C1_EmptyTranscriptStops ==
    ReturnedWith("Transcriber", <<>>) =>
        /\ ~WasInvoked("EmotionClassifier")
        /\ ~WasInvoked("PromptGenerator")
        /\ ~WasInvoked("ImageSynthesizer")
        /\ RunOver =>
              /\ err = NoErr
              /\ result = [returned |-> TRUE, transcription |-> Some(<<>>),
                           emotion |-> None, prompt |-> None, image |-> None]

\* C2: when the PromptGenerator returns an empty prompt, the ImageSynthesizer
\* is not invoked and the run ends with a partial result: transcript and
\* emotion, no prompt, no image.
C2_EmptyPromptStops ==
    ReturnedWith("PromptGenerator", <<>>) =>
        /\ ~WasInvoked("ImageSynthesizer")
        /\ RunOver =>
              /\ err = NoErr
              /\ result.returned
              /\ Populated(result.transcription)
              /\ result.emotion.some
              /\ ~Populated(result.prompt)
              /\ result.image = None

-----------------------------------------------------------------------------
(* C3: fail fast *)

\* C3: a stage that raises ends the run: the raise is the last stage event
\* (no later stage, no second invocation of the failing one), the run goes to
\* its end with that very error surfaced, and no result is returned.
C3_FailFast ==
    /\ \A i \in DOMAIN log :
          log[i].ev = "raise" =>
              /\ i = Len(log)
              /\ Cardinality({j \in DOMAIN log :
                     log[j].ev = "invoke" /\ log[j].stage = log[i].stage}) = 1
              /\ pc \in {"cleanup", "done"}
              /\ err = log[i].err
              /\ result = NoResult
    /\ err # NoErr => log # <<>> /\ log[Len(log)].ev = "raise"

C3_Witness ==
    /\ RunOver
    /\ \E i \in DOMAIN log : log[i].ev = "raise" /\ log[i].stage = "PromptGenerator"

-----------------------------------------------------------------------------
(* C4: temporary files *)

\* C4: when the run is over, every temporary file created for the audio
\* clip is deleted and no handle on it is open.
C4_TempFilesReleased ==
    RunOver => /\ \A f \in DOMAIN files : files[f] # "exists"
               /\ handles = {}

-----------------------------------------------------------------------------
(* C5, C6: upstream answers *)

\* C5: a stage whose upstream service answers with a non-200 status raises
\* an UpstreamError (HTTPException) carrying exactly that status and body.
C5_Non200RaisesUpstreamError ==
    \A i \in DOMAIN log :
        LET r == world[ServiceOf(log[i].stage)]
        IN  (IsOutcome(log[i]) /\ requests[ServiceOf(log[i].stage)] > 0 /\ r.status # 200)
                => /\ log[i].ev = "raise"
                   /\ log[i].err = HTTPException(r.status, r.body)

-----------------------------------------------------------------------------
(* C7: full success *)

Resolvable(name) ==
    \/ secrets[name].some
    \/ environ[name].some /\ environ[name].v # ""

NotBlank(s) == \E i \in DOMAIN s : s[i] \notin Whitespace

\* every credential is there and every service answers 200 with output
Healthy ==
    /\ \A n \in Names : Resolvable(n)
    /\ world.stt = [status |-> 200, body |-> "json", json |-> [text |-> DreamText]]
    /\ world.chat_emotion.status = 200 /\ NotBlank(world.chat_emotion.content)
    /\ world.chat_prompt.status = 200 /\ NotBlank(world.chat_prompt.content)
    /\ world.image.status = 200

\* C7: a run in which all four stages succeed with non-empty output ends
\* with all four fields populated by the stages' outputs.
C7_FullSuccess ==
    (RunOver /\ Healthy) =>
        /\ err = NoErr
        /\ result = [returned |-> TRUE,
                     transcription |-> Some(DreamText),
                     emotion |-> Some(<<"n", "e", "u", "t", "r", "e">>),
                     prompt |-> Some(<<"A", "r", "t">>),
                     image |-> Some(<<"data:image/png;base64,", "i", "V", "A", "=">>)]

-----------------------------------------------------------------------------
(* C8: the image credential is resolved last *)

ImageKeyError == RuntimeError("CLIPDROP_API_KEY")

\* C8: the missing image credential is raised only by the ImageSynthesizer,
\* after the three earlier stages were invoked and returned, with no request
\* sent to the text-to-image service; and /dream-to-image does end with that
\* error when only that credential is missing and the three services answer.
C8_ImageCredentialLast ==
    /\ \A i \in DOMAIN log :
          (log[i].ev = "raise" /\ log[i].err = ImageKeyError)
              => /\ i = 8
                 /\ [k \in 1..8 |-> <<log[k].ev, log[k].stage>>] =
                        << <<"invoke", "Transcriber">>, <<"return", "Transcriber">>,
                           <<"invoke", "EmotionClassifier">>, <<"return", "EmotionClassifier">>,
                           <<"invoke", "PromptGenerator">>, <<"return", "PromptGenerator">>,
                           <<"invoke", "ImageSynthesizer">>, <<"raise", "ImageSynthesizer">> >>
                 /\ requests = [NoRequests EXCEPT !["stt"] = 1, !["chat_emotion"] = 1,
                                                  !["chat_prompt"] = 1]
    /\ ( /\ RunOver /\ flow = "api"
         /\ Resolvable("OPENAI_API_KEY") /\ Resolvable("GROQ_API_KEY")
         /\ ~Resolvable("CLIPDROP_API_KEY")
         /\ world.stt.status = 200 /\ world.chat_emotion.status = 200
         /\ world.chat_prompt.status = 200 )
       => err = ImageKeyError

C8_Witness ==
    /\ RunOver
    /\ err = ImageKeyError
    /\ Populated(text) /\ Populated(prompt)

-----------------------------------------------------------------------------
(* C9: the secret resolver *)

\* C9 as claimed: get_secret returns the value of st.secrets when the name is
\* there, otherwise the value of the environment, and fails exactly when
\* neither source holds a value.
C9_ResolveAsClaimed ==
    \A i \in DOMAIN resolves :
        LET n == resolves[i].name
        IN  resolves[i].out =
                IF secrets[n].some THEN Ok(secrets[n].v)
                ELSE IF environ[n].some THEN Ok(environ[n].v)
                ELSE Raised(RuntimeError(n))

\* C9 as amended: as claimed, except that an environment variable set to the
\* empty string counts as no value.  The sources change only between runs,
\* so every call of a run is compared with what they hold at that call.
C9_Resolve ==
    \A i \in DOMAIN resolves :
        LET n == resolves[i].name
        IN  resolves[i].out =
                IF secrets[n].some THEN Ok(secrets[n].v)
                ELSE IF environ[n].some /\ environ[n].v # "" THEN Ok(environ[n].v)
                ELSE Raised(RuntimeError(n))

C9_Witness ==
    \E i \in DOMAIN resolves :
        /\ environ[resolves[i].name] = SetTo("sk-environ")
        /\ secrets[resolves[i].name] = SetTo("sk-secrets")
        /\ resolves[i].out = Ok("sk-secrets")

-----------------------------------------------------------------------------
(* C10: one stage at a time, in the fixed order *)

InFlight ==
    Cardinality({i \in DOMAIN log : log[i].ev = "invoke"})
        - Cardinality({i \in DOMAIN log : IsOutcome(log[i])})

\* C10: the invoked stages are a prefix of Transcriber, EmotionClassifier,
\* PromptGenerator, ImageSynthesizer (so each at most once); at most one is
\* in flight; a stage is invoked right after its predecessor returned; the
\* two chat stages are given the Transcriber's text (bare in dream_to_image,
\* inside a Payload in the UI wrappers) and the ImageSynthesizer the
\* PromptGenerator's text.
C10_FixedSequence ==
    /\ Len(InvokedStages) <= Len(Stages)
    /\ \A k \in DOMAIN InvokedStages : InvokedStages[k] = Stages[k]
    /\ InFlight \in {0, 1}
    /\ \A i \in DOMAIN log :
          log[i].ev = "invoke" =>
              CASE log[i].stage = "Transcriber" -> i = 1
                [] log[i].stage = "EmotionClassifier" ->
                      /\ i > 1 /\ log[i - 1].ev = "return" /\ log[i - 1].stage = "Transcriber"
                      /\ log[i].text = log[i - 1].text
                [] log[i].stage = "PromptGenerator" ->
                      /\ i > 1 /\ log[i - 1].ev = "return" /\ log[i - 1].stage = "EmotionClassifier"
                      /\ ReturnedWith("Transcriber", log[i].text)
                [] log[i].stage = "ImageSynthesizer" ->
                      /\ i > 1 /\ log[i - 1].ev = "return" /\ log[i - 1].stage = "PromptGenerator"
                      /\ log[i].text = log[i - 1].text

C10_Witness ==
    /\ Len(log) = 8
    /\ log[8].ev = "return"
    /\ log[8].stage = "ImageSynthesizer"

====
